---- MODULE Spec2Model ----
(***************************************************************************)
(* The speculative-execution coordinator of voice-rag-agent               *)
(* (realtime.py: RealtimeCoordinator) as an asyncio state machine.         *)
(*                                                                         *)
(* The event loop is single threaded: a coroutine runs without interruption *)
(* from one await to the next, so every action below is the code between    *)
(* two suspension points.  The blocking generator (get_llm_response) and    *)
(* speaker (tts_speak) calls run on executor threads; their return is an    *)
(* action of its own.  Text is a sequence of one-character strings.         *)
(***************************************************************************)
EXTENDS Integers, Sequences, FiniteSets, TLC

\* ------------------------------------------------------------------ bounds

\* Pipelines (asyncio Tasks running _run_pipeline) created in one behaviour.
MaxRuns == 2

\* Characters in a text handed to a text function directly.
MaxTextLen == 5

\* Words in a text handed to chunk_text.
MaxWords == 4

\* Largest max_words and stride handed to chunk_text.
MaxSize == 3


\* ------------------------------------------------------- program constants

\* realtime.py:160, hybrid_search(q2, k=8)
SearchK == 8

\* realtime.py:164, rerank(q2, texts, top_k=3)
RerankTopK == 3

\* postprocess.py:8, max_sentence_words default
MaxSentenceWords == 18

\* -------------------------------------------------------------------- text

Space == " "

\* str.lower() on the characters the model uses
LowerChar(c) ==
    CASE c = "A" -> "a"
      [] c = "B" -> "b"
      [] c = "I" -> "i"
      [] c = "T" -> "t"
      [] OTHER -> c

Lower(s) == [i \in 1..Len(s) |-> LowerChar(s[i])]

RECURSIVE Join(_, _)
\* sep.join(parts)
Join(sep, parts) ==
    IF parts = <<>> THEN <<>>
    ELSE IF Len(parts) = 1 THEN parts[1]
    ELSE parts[1] \o sep \o Join(sep, Tail(parts))

\* the position of the first character of s that is in the set chars, 0 if none
FirstIn(s, chars) ==
    IF \E i \in 1..Len(s) : s[i] \in chars
    THEN CHOOSE i \in 1..Len(s) : s[i] \in chars /\ \A j \in 1..(i-1) : s[j] \notin chars
    ELSE 0

\* s.split(".")[0]
BeforeFirstDot(s) ==
    IF FirstIn(s, {"."}) = 0 THEN s ELSE SubSeq(s, 1, FirstIn(s, {"."}) - 1)

\* sub in s, for texts
Contains(s, sub) ==
    \E i \in 0..(Len(s) - Len(sub)) : SubSeq(s, i + 1, i + Len(sub)) = sub

\* set(seq)
Range(f) == {f[i] : i \in DOMAIN f}

\* ------------------------------------------------------------ postprocess

\* characters matched by \s and skipped by str.split()
Whitespace == {" ", "\n"}

\* characters after which the sentence splitter splits
SentenceEnd == {".", "!", "?"}

RECURSIVE WordsFrom(_, _, _)
WordsFrom(s, cur, acc) ==
    IF s = <<>> THEN (IF cur = <<>> THEN acc ELSE Append(acc, cur))
    ELSE IF Head(s) \in Whitespace
         THEN WordsFrom(Tail(s), <<>>, IF cur = <<>> THEN acc ELSE Append(acc, cur))
         ELSE WordsFrom(Tail(s), Append(cur, Head(s)), acc)

\* p.split()
Words(s) == WordsFrom(s, <<>>, <<>>)

RECURSIVE CollapseWs(_)
\* re.sub(r"\s+", " ", text)
CollapseWs(s) ==
    IF s = <<>> THEN <<>>
    ELSE IF Head(s) \in Whitespace
         THEN IF Len(s) > 1 /\ s[2] \in Whitespace
              THEN CollapseWs(Tail(s))
              ELSE <<Space>> \o CollapseWs(Tail(s))
         ELSE <<Head(s)>> \o CollapseWs(Tail(s))

RECURSIVE LStrip(_)
LStrip(s) ==
    IF s # <<>> /\ Head(s) \in Whitespace THEN LStrip(Tail(s)) ELSE s

RECURSIVE RStrip(_)
RStrip(s) ==
    IF s # <<>> /\ s[Len(s)] \in Whitespace THEN RStrip(SubSeq(s, 1, Len(s) - 1)) ELSE s

\* str.strip()
Strip(s) == LStrip(RStrip(s))

RECURSIVE SkipSpaces(_, _)
\* the first position at or after i that holds no space
SkipSpaces(s, i) ==
    IF i <= Len(s) /\ s[i] = Space THEN SkipSpaces(s, i + 1) ELSE i

RECURSIVE SentencesFrom(_, _, _, _)
SentencesFrom(s, i, cur, acc) ==
    IF i > Len(s) THEN Append(acc, cur)
    ELSE IF s[i] = Space /\ i > 1 /\ s[i-1] \in SentenceEnd
         THEN SentencesFrom(s, SkipSpaces(s, i), <<>>, Append(acc, cur))
         ELSE SentencesFrom(s, i + 1, Append(cur, s[i]), acc)

\* re.split(r'(?<=[.!?]) +', text)
Sentences(s) == SentencesFrom(s, 1, <<>>, <<>>)

\* variant of TruncateSentence: a sentence of exactly maxw words is cut too
TruncateSentence_CutsAtBound(p, maxw) ==
    IF Len(Words(p)) >= maxw
    THEN Join(<<Space>>, SubSeq(Words(p), 1, maxw)) \o <<".", ".", ".">>
    ELSE p

\* variant of TruncateSentence: one word more than the bound is kept
TruncateSentence_OneMore(p, maxw) ==
    IF Len(Words(p)) > maxw + 1
    THEN Join(<<Space>>, SubSeq(Words(p), 1, maxw + 1)) \o <<".", ".", ".">>
    ELSE p

\* the loop body of postprocess_for_voice: one sentence, cut to maxw words
TruncateSentence(p, maxw) ==
    IF Len(Words(p)) > maxw
    THEN Join(<<Space>>, SubSeq(Words(p), 1, maxw)) \o <<".", ".", ".">>
    ELSE p

\* postprocess.py:8-28
postprocess_for_voice(text, maxw) ==
    LET parts == Sentences(Strip(CollapseWs(text)))
    IN  Join(<<Space>>, [i \in 1..Len(parts) |-> TruncateSentence(parts[i], maxw)])

\* ----------------------------------------------------------------- rewrite

\* rewrite.py:21
Pronouns ==
    { <<"i","t">>, <<"t","h","a","t">>, <<"t","h","i","s">>, <<"t","h","e","y">>,
      <<"t","h","e","m">>, <<"s","e","c","o","n","d">>, <<"f","i","r","s","t">> }

rewrite_query(query, hist) ==
    IF hist = <<>> THEN query
    ELSE IF \E p \in Pronouns : Contains(Lower(query), p)
         THEN query \o <<" ","(","c","o","n","t","e","x","t",":"," ">> \o hist[Len(hist)] \o <<")">>
         ELSE query

\* ----------------------------------------------------------------- ranking

Min(a, b) == IF a < b THEN a ELSE b

\* list(S) for a set S: every order in which its elements can be listed
Orderings(S) == {f \in [1..Cardinality(S) -> S] : Range(f) = S}

RECURSIVE InsertByScore(_, _)
\* x put into the list sorted, behind every element whose score is not smaller
InsertByScore(sorted, x) ==
    IF sorted = <<>> THEN <<x>>
    ELSE IF Head(sorted)[1] >= x[1]
         THEN <<Head(sorted)>> \o InsertByScore(Tail(sorted), x)
         ELSE <<x>> \o sorted

RECURSIVE SortByScoreDesc(_)
\* sorted(pairs, key=lambda x: -x[0]) and list.sort(key=lambda x: -x[0]): stable
SortByScoreDesc(pairs) ==
    IF pairs = <<>> THEN <<>>
    ELSE InsertByScore(SortByScoreDesc(SubSeq(pairs, 1, Len(pairs) - 1)), pairs[Len(pairs)])

\* seq[:n]
Take(seq, n) == SubSeq(seq, 1, Min(n, Len(seq)))

\* len(qset.intersection(set(d.lower().split())))
Overlap(query, d) == Cardinality(Range(Words(Lower(query))) \cap Range(Words(Lower(d))))

\* the scores a CrossEncoder.predict call can give one pair
CrossScores == {0, 1, 2}

\* variant of rerank_fallback: line 37 returns scored whole
rerank_fallback_Uncut(query, candidates, top_k) ==
    SortByScoreDesc([i \in 1..Len(candidates) |->
                        <<Overlap(query, candidates[i]), candidates[i]>>])

\* reranker.py:30-37, the lexical scores of the fallback
rerank_fallback(query, candidates, top_k) ==
    Take(SortByScoreDesc([i \in 1..Len(candidates) |->
                             <<Overlap(query, candidates[i]), candidates[i]>>]), top_k)

\* reranker.py:20-26, one result for every scoring the model can return
rerank_model(query, candidates, top_k) ==
    { Take(SortByScoreDesc([i \in 1..Len(candidates) |-> <<sc[i], candidates[i]>>]), top_k) :
        sc \in [1..Len(candidates) -> CrossScores] }

\* The results rerank can return: the model's when CrossEncoder is installed and
\* predict returns, the fallback's when it is not installed or raises.
rerank(query, candidates, top_k) ==
    IF candidates = <<>> THEN {<<>>}
    ELSE rerank_model(query, candidates, top_k) \cup {rerank_fallback(query, candidates, top_k)}

\* --------------------------------------------------------------- retrieval

VARIABLES
    docs,          \* retriever.py docs: the corpus, fixed when the module is loaded
    GROQ_CLIENT,   \* app.py GROQ_CLIENT: TRUE when a client was built at import
    history,       \* RealtimeCoordinator.history
    metrics,       \* RealtimeCoordinator.metrics (MetricsCollector)
    current_task,  \* RealtimeCoordinator._current_task: a task id, 0 for None
    ntasks,        \* number of _run_pipeline tasks created so far
    pc,            \* per task: the await at which its coroutine is suspended
    partial,       \* per task: the argument of _run_pipeline
    cancelling,    \* per task: Task.cancel() was called on it (Task.cancelling() > 0)
    must_cancel,   \* per task: a CancelledError is due at its next step
    result,        \* per task: how it ended: completed, returned, cancelled or raised
    call,          \* per task: the state of each of its four executor calls
    out,           \* per task: the text its two get_llm_response calls returned
    retr,          \* per task: its retrieval_task
    loc,           \* per task: the locals of _run_pipeline
    ready,         \* the event loop's queue of scheduled steps, run first in first out
    probe,         \* the last direct call of a search or rerank function and its result
    chunker        \* ingest.py chunk_text: its arguments, locals and position

vars == <<docs, GROQ_CLIENT, history, metrics, current_task, ntasks, pc, partial,
          cancelling, must_cancel, result, call, out, retr, loc, ready, probe, chunker>>

Tasks == 1..MaxRuns

\* numpy's docs[i] for a label i: the document, or IndexError
DocAt(i) ==
    IF i >= Len(docs) \/ i < 0 - Len(docs) THEN <<"IndexError">>
    ELSE IF i < 0 THEN <<"doc", docs[Len(docs) + i + 1]>>
    ELSE <<"doc", docs[i + 1]>>

\* The label rows index.search(q_emb, k) can return, as the set of their k labels:
\* the k best positions of the corpus, or all of them and -1 in the columns left
\* over when the index holds fewer than k vectors.
FaissLabels(k) ==
    IF Len(docs) < k THEN {(0 - 1)..(Len(docs) - 1)}
    ELSE {L \in SUBSET (0..(Len(docs) - 1)) : Cardinality(L) = k}

\* The documents bm25.get_top_n(query.split(), docs, n=k) can return: the n best,
\* whichever the scores make them.
Bm25TopN(k) ==
    {B \in SUBSET (1..Len(docs)) : Cardinality(B) = Min(k, Len(docs))}

\* retriever.py:108-115, the definition the name hybrid_search is bound to once
\* the module is loaded.  Each outcome is an error or the list it returns.
hybrid_search(query, k) ==
    {[err |-> "service", hits |-> <<>>]}
    \cup UNION { IF \E i \in L : DocAt(i) = <<"IndexError">>
                 THEN {[err |-> "IndexError", hits |-> <<>>]}
                 ELSE UNION { {[err |-> "none", hits |-> o] :
                                 o \in Orderings({DocAt(i)[2] : i \in L} \cup {docs[j] : j \in B})} :
                              B \in Bm25TopN(k) } :
                 L \in FaissLabels(k) }

\* realtime.py:155-167
retrieve_and_rerank(query, hist) ==
    LET q2 == rewrite_query(query, hist)
    IN  UNION { IF h.err # "none" THEN {[err |-> h.err, ctx |-> <<>>]}
                ELSE IF \E i \in 1..Len(h.hits) : Len(h.hits[i]) < 2
                     THEN {[err |-> "IndexError", ctx |-> <<>>]}
                     ELSE {[err |-> "none", ctx |-> [i \in 1..Len(rr) |-> rr[i][2]]] :
                             rr \in rerank(q2, [i \in 1..Len(h.hits) |-> <<h.hits[i][2]>>],
                                           RerankTopK)} :
                h \in hybrid_search(q2, SearchK) }

\* ------------------------------------------------------------ environment

\* the values, in clock ticks, a difference of two time.time() readings takes
Latencies == {0, 1}

\* the transcripts handle_partial is called with
Transcripts == { <<"i","t">>, <<"a"," ","b">> }

\* the corpora rag/docs.npy can hold
Corpora ==
    { <<>>,
      << <<"b","a">>, <<"i","t">> >> }

\* app.py:37, "[LLM unavailable - set GROQ_API_KEY and install Groq SDK]", shortened
LLMUnavailable == <<"[","L","L","M"," ","u","n","a","v","a","i","l","a","b","l","e","]">>

\* the texts a completion can hold
LLMTexts == { <<"A"," "," ","b","."," ","c","!">> }

\* app.py:28-44: what one get_llm_response call can do
get_llm_response ==
    IF ~GROQ_CLIENT THEN {[st |-> "ok", text |-> LLMUnavailable]}
    ELSE {[st |-> "ok", text |-> t] : t \in LLMTexts} \cup {[st |-> "failed", text |-> <<>>]}

\* speech/tts.py:53: what one tts_speak call can do
tts_speak == {[st |-> "ok", text |-> <<>>], [st |-> "failed", text |-> <<>>]}

\* the executor calls of one pipeline
Generators == {"fillerGen", "finalGen"}
Speakers == {"fillerSpk", "finalSpk"}
Calls == Generators \cup Speakers

NoRetrieval == [st |-> "none", err |-> "none", ctx |-> <<>>]
NoLocals == [filler_text |-> <<>>, contexts |-> <<>>, retrieval_time |-> 0, final_answer |-> <<>>]

\* chunk_text is not running
NoChunker ==
    [text |-> <<>>, max_words |-> 1, stride |-> 1, i |-> 0, chunks |-> <<>>, dropped |-> 0,
     pc |-> "none"]

\* no function was called directly
NoProbe ==
    [op |-> "none", query |-> <<>>, k |-> 0,
     res |-> [vector |-> "none", bm25 |-> "none", model |-> "none", metric |-> "none"],
     err |-> "none", hits |-> <<>>]

Init ==
    /\ docs \in Corpora
    /\ probe = NoProbe
    /\ chunker = NoChunker
    /\ GROQ_CLIENT \in BOOLEAN
    /\ history = <<>>
    /\ metrics = [runs |-> 0, total_retrieval_time |-> 0, total_time |-> 0]
    /\ current_task = 0
    /\ ntasks = 0
    /\ pc = [r \in Tasks |-> "none"]
    /\ partial = [r \in Tasks |-> <<>>]
    /\ cancelling = [r \in Tasks |-> FALSE]
    /\ must_cancel = [r \in Tasks |-> FALSE]
    /\ result = [r \in Tasks |-> "none"]
    /\ call = [r \in Tasks |-> [c \in Calls |-> "none"]]
    /\ out = [r \in Tasks |-> [c \in Generators |-> <<>>]]
    /\ retr = [r \in Tasks |-> NoRetrieval]
    /\ loc = [r \in Tasks |-> NoLocals]
    /\ ready = <<>>

\* ------------------------------------------------------------ coordinator

\* entries of the event loop's ready queue: the next step of a pipeline task,
\* the first step of its retrieval_task
P(r) == [kind |-> "pipeline", task |-> r]
R(r) == [kind |-> "retrieval", task |-> r]

\* Task.done()
Done(r) == pc[r] = "done"

\* Future.done() of an executor call's future
Returned(st) == st \in {"ok", "failed"}

\* the executor call whose future a task suspended at site is waiting for
Awaited(site) == IF site = "filler_play" THEN "fillerSpk" ELSE site

\* the task is suspended on the future of its call c
Awaits(r, c) == pc[r] \in {"fillerGen", "finalGen", "filler_play", "finalSpk"} /\ Awaited(pc[r]) = c

\* variant of MustCancel: the previous pipeline is left running
MustCancel_Never(cur) == FALSE

\* realtime.py:85, the test that guards self._current_task.cancel()
MustCancel(cur) == cur # 0 /\ ~Done(cur)

\* Task.cancel() on the pipeline task cur: a future it waits for and that is not
\* done is cancelled, which schedules the task; a retrieval_task it waits for is
\* asked to cancel; else the task is scheduled already and Task._must_cancel is
\* set.  must_cancel stands for both ways the CancelledError gets to the task.
CancelWakes(cur) ==
    IF \E c \in Calls : Awaits(cur, c) /\ call[cur][c] = "running" THEN <<P(cur)>> ELSE <<>>

\* realtime.py:82-91, the body of the lock: the previous pipeline is cancelled if
\* it is not done and a task for the new transcript becomes _current_task
swap_current_task(t) ==
    /\ ntasks < MaxRuns
    /\ LET cur == current_task
           new == ntasks + 1
       IN  /\ cancelling' = IF MustCancel(cur) THEN [cancelling EXCEPT ![cur] = TRUE]
                            ELSE cancelling
           /\ must_cancel' = IF MustCancel(cur) THEN [must_cancel EXCEPT ![cur] = TRUE]
                             ELSE must_cancel
           /\ retr' = IF MustCancel(cur) /\ pc[cur] = "retrieval_task" /\ retr[cur].st = "pending"
                      THEN [retr EXCEPT ![cur].st = "cancelling"]
                      ELSE retr
           /\ ready' = ready \o (IF MustCancel(cur) THEN CancelWakes(cur) ELSE <<>>) \o <<P(new)>>
           /\ ntasks' = new
           /\ current_task' = new
           /\ pc' = [pc EXCEPT ![new] = "created"]
           /\ partial' = [partial EXCEPT ![new] = t]
    /\ UNCHANGED <<docs, GROQ_CLIENT, history, metrics, result, call, out, loc, probe, chunker>>

\* variant of handle_partial: the generator and speaker calls run on the event
\* loop, which takes no transcript until they have returned
handle_partial_CallsInline(t) ==
    /\ \A r \in Tasks, c \in Calls : call[r][c] # "running"
    /\ swap_current_task(t)

\* variant of handle_partial: the exception of the previous pipeline is raised
\* to the caller in place of the swap
handle_partial_Reraises(t) ==
    /\ current_task # 0 => result[current_task] # "raised"
    /\ swap_current_task(t)

\* realtime.py:74-91.  The lock is free whenever the method starts, since its body
\* never awaits, so acquire, the swap and release are one step of the event loop.
\* The calls of the pipelines run on executor threads, so the loop is free to run
\* this step whatever they do.
handle_partial(t) == swap_current_task(t)

\* The exception the event loop throws into a coroutine it resumes: a requested
\* cancellation first (Task.__step), else the exception of the awaited future.
Thrown(r, st) ==
    IF must_cancel[r] THEN "CancelledError"
    ELSE IF st = "failed" THEN "Exception"
    ELSE "none"

\* variant of Handler: line 128 catches BaseException, so a cancellation thrown
\* at await filler_play is passed over like any failure of the speaker
Handler_CatchAll(site, exc) ==
    CASE site = "retrieval_task" /\ exc = "CancelledError" -> "return"
      [] site = "filler_play" -> "continue"
      [] OTHER -> "propagate"

\* variant of Handler: line 115 goes on with what it has instead of returning
Handler_NoReturn(site, exc) ==
    CASE site = "retrieval_task" /\ exc = "CancelledError" -> "continue"
      [] site = "filler_play" /\ exc = "Exception" -> "continue"
      [] OTHER -> "propagate"

\* What _run_pipeline does with an exception thrown at an await:
\* realtime.py:112-115 returns on CancelledError, realtime.py:126-129 passes over
\* an Exception (CancelledError is a BaseException), no other await is in a try.
Handler(site, exc) ==
    CASE site = "retrieval_task" /\ exc = "CancelledError" -> "return"
      [] site = "filler_play" /\ exc = "Exception" -> "continue"
      [] OTHER -> "propagate"

\* variant of Finish: ending the task also ends the calls of it that are still
\* running on a thread
Finish_DropsCalls(r, how) ==
    /\ pc' = [pc EXCEPT ![r] = "done"]
    /\ result' = [result EXCEPT ![r] = how]
    /\ partial' = [partial EXCEPT ![r] = <<>>]
    /\ call' = [call EXCEPT ![r] = [c \in Calls |-> "none"]]
    /\ loc' = [loc EXCEPT ![r] = NoLocals]
    /\ out' = [out EXCEPT ![r] = [c \in Generators |-> <<>>]]
    /\ retr' = [retr EXCEPT ![r] = NoRetrieval]

\* The task ends: its coroutine returned or an exception left it.  The frame of
\* the coroutine goes with it: its argument and locals, retrieval_task, and the
\* futures of the executor calls, of which only the calls still running on a
\* thread are left.
Finish(r, how) ==
    /\ pc' = [pc EXCEPT ![r] = "done"]
    /\ result' = [result EXCEPT ![r] = how]
    /\ partial' = [partial EXCEPT ![r] = <<>>]
    /\ call' = [call EXCEPT ![r] = [c \in Calls |->
                                      IF call[r][c] = "running" THEN "running" ELSE "none"]]
    /\ loc' = [loc EXCEPT ![r] = NoLocals]
    /\ out' = [out EXCEPT ![r] = [c \in Generators |-> <<>>]]
    /\ retr' = [retr EXCEPT ![r] = NoRetrieval]

\* the exception exc, thrown at the await site, ends the task or is handled there
Leave(r, site, exc) ==
    IF Handler(site, exc) = "return" THEN Finish(r, "returned")
    ELSE IF exc = "CancelledError" THEN Finish(r, "cancelled")
    ELSE Finish(r, "raised")

\* the event loop runs the step of pipeline task r that heads the ready queue
Runs(r, site) ==
    /\ ready # <<>>
    /\ Head(ready) = P(r)
    /\ pc[r] = site
    /\ must_cancel' = [must_cancel EXCEPT ![r] = FALSE]

\* what no step of a pipeline task changes
coordinator == <<docs, GROQ_CLIENT, current_task, ntasks, cancelling, probe, chunker>>

\* realtime.py:93-100: the first step of the task.  A task cancelled before it
\* ran gets CancelledError thrown into a coroutine that has not started.
run_pipeline_start(r) ==
    /\ Runs(r, "created")
    /\ IF must_cancel[r]
       THEN Finish(r, "cancelled")
       ELSE /\ call' = [call EXCEPT ![r]["fillerGen"] = "running"]
            /\ pc' = [pc EXCEPT ![r] = "fillerGen"]
            /\ UNCHANGED <<result, partial, loc, out, retr>>
    /\ ready' = Tail(ready)
    /\ UNCHANGED <<coordinator, history, metrics>>

\* An executor thread returns from get_llm_response or tts_speak.  If the task
\* waits for the call and its future was not cancelled, the future takes the
\* outcome and schedules the task; else the outcome is dropped.
worker_return(r, c) ==
    /\ call[r][c] = "running"
    /\ \E o \in (IF c \in Generators THEN get_llm_response ELSE tts_speak) :
          /\ call' = [call EXCEPT ![r][c] = o.st]
          /\ out' = IF c \in Generators /\ ~must_cancel[r] /\ ~Done(r)
                    THEN [out EXCEPT ![r][c] = o.text]
                    ELSE out
    /\ ready' = IF Awaits(r, c) /\ ~must_cancel[r] THEN Append(ready, P(r)) ELSE ready
    /\ UNCHANGED <<coordinator, history, metrics, pc, partial, must_cancel, result, retr, loc>>

\* realtime.py:102, filler_text.split(".")[0] + "."
FillerText(filler_text) == BeforeFirstDot(filler_text) \o <<".">>

\* realtime.py:100-113: resumed from the filler generator call
after_filler_gen(r) ==
    /\ Runs(r, "fillerGen")
    /\ LET exc == Thrown(r, call[r]["fillerGen"])
       IN  IF exc # "none"
           THEN /\ Leave(r, "fillerGen", exc)
                /\ ready' = Tail(ready)
           ELSE /\ loc' = [loc EXCEPT ![r].filler_text =
                                 FillerText(out[r]["fillerGen"])]
                /\ call' = [call EXCEPT ![r]["fillerSpk"] = "running"]
                /\ retr' = [retr EXCEPT ![r].st = "pending"]
                /\ ready' = Append(Tail(ready), R(r))
                /\ pc' = [pc EXCEPT ![r] = "retrieval_task"]
                /\ UNCHANGED <<result, partial, out>>
    /\ UNCHANGED <<coordinator, history, metrics>>

\* variant of retrieval_task_run: the retrieval appends its query to history
retrieval_task_run_Records(r) ==
    /\ ready # <<>> /\ Head(ready) = R(r)
    /\ retr[r].st = "pending"
    /\ \E o \in retrieve_and_rerank(partial[r], history) :
          retr' = [retr EXCEPT ![r] = [st |-> IF o.err = "none" THEN "ok" ELSE "failed",
                                       err |-> o.err, ctx |-> o.ctx]]
    /\ history' = Append(history, partial[r])
    /\ ready' = Append(Tail(ready), P(r))
    /\ UNCHANGED <<coordinator, metrics, pc, partial, must_cancel, result, call, out, loc>>

\* realtime.py:155-167: retrieval_task runs; it never awaits, so it is one step,
\* and its end schedules the pipeline task that waits for it
retrieval_task_run(r) ==
    /\ ready # <<>> /\ Head(ready) = R(r)
    /\ retr[r].st = "pending"
    /\ \E o \in retrieve_and_rerank(partial[r], history) :
          retr' = [retr EXCEPT ![r] = [st |-> IF o.err = "none" THEN "ok" ELSE "failed",
                                       err |-> o.err, ctx |-> o.ctx]]
    /\ ready' = Append(Tail(ready), P(r))
    /\ UNCHANGED <<coordinator, history, metrics, pc, partial, must_cancel, result, call, out,
                   loc>>

\* retrieval_task was cancelled before its first step: its coroutine never runs
retrieval_task_cancelled(r) ==
    /\ ready # <<>> /\ Head(ready) = R(r)
    /\ retr[r].st = "cancelling"
    /\ retr' = [retr EXCEPT ![r].st = "cancelled"]
    /\ ready' = Append(Tail(ready), P(r))
    /\ UNCHANGED <<coordinator, history, metrics, pc, partial, must_cancel, result, call, out,
                   loc>>

\* realtime.py:113-122: resumed from retrieval_task
after_retrieval(r) ==
    /\ Runs(r, "retrieval_task")
    /\ LET exc == Thrown(r, retr[r].st)
       IN  IF exc # "none" /\ Handler("retrieval_task", exc) # "continue"
           THEN Leave(r, "retrieval_task", exc)
           ELSE /\ \E rt \in Latencies :
                      loc' = [loc EXCEPT ![r].retrieval_time = rt,
                                         ![r].contexts = retr[r].ctx]
                /\ call' = [call EXCEPT ![r]["finalGen"] = "running"]
                /\ pc' = [pc EXCEPT ![r] = "finalGen"]
                /\ UNCHANGED <<result, partial, out, retr>>
    /\ ready' = Tail(ready)
    /\ UNCHANGED <<coordinator, history, metrics>>

\* variant of FillerPlayJoined: lines 126-129 are left out
FillerPlayJoined_NoAwait(st) == TRUE

\* realtime.py:126-129: await filler_play goes on once the future is done
FillerPlayJoined(st) == Returned(st)

\* realtime.py:132: the final answer goes to the speaker
speak_final(r, final_answer) ==
    /\ loc' = [loc EXCEPT ![r].final_answer = final_answer]
    /\ call' = [call EXCEPT ![r]["finalSpk"] = "running"]
    /\ pc' = [pc EXCEPT ![r] = "finalSpk"]
    /\ UNCHANGED <<result, partial, out, retr>>

\* realtime.py:122-132: resumed from the second generator call.  A filler_play
\* that is done does not suspend the coroutine at line 127.
after_final_gen(r) ==
    /\ Runs(r, "finalGen")
    /\ LET exc == Thrown(r, call[r]["finalGen"])
           played == IF call[r]["fillerSpk"] = "failed" THEN "Exception" ELSE "none"
           final_answer == postprocess_for_voice(out[r]["finalGen"], MaxSentenceWords)
       IN  IF exc # "none"
           THEN Leave(r, "finalGen", exc)
           ELSE IF ~FillerPlayJoined(call[r]["fillerSpk"])
           THEN /\ loc' = [loc EXCEPT ![r].final_answer = final_answer]
                /\ pc' = [pc EXCEPT ![r] = "filler_play"]
                /\ UNCHANGED <<call, result, partial, out, retr>>
           ELSE IF played # "none" /\ Handler("filler_play", played) # "continue"
           THEN Leave(r, "filler_play", played)
           ELSE speak_final(r, final_answer)
    /\ ready' = Tail(ready)
    /\ UNCHANGED <<coordinator, history, metrics>>

\* realtime.py:127-132: resumed from filler_play
after_filler_play(r) ==
    /\ Runs(r, "filler_play")
    /\ LET exc == Thrown(r, call[r]["fillerSpk"])
       IN  IF exc # "none" /\ Handler("filler_play", exc) # "continue"
           THEN Leave(r, "filler_play", exc)
           ELSE speak_final(r, loc[r].final_answer)
    /\ ready' = Tail(ready)
    /\ UNCHANGED <<coordinator, history, metrics>>

\* variant of MetricsAdd: the total time is not accumulated
MetricsAdd_DropsTotal(m, retrieval_time, total_time) ==
    [runs |-> m.runs + 1,
     total_retrieval_time |-> m.total_retrieval_time + retrieval_time,
     total_time |-> m.total_time]

\* realtime.py:47-50
MetricsAdd(m, retrieval_time, total_time) ==
    [runs |-> m.runs + 1,
     total_retrieval_time |-> m.total_retrieval_time + retrieval_time,
     total_time |-> m.total_time + total_time]

\* total / runs of realtime.py:56-57, kept exact as the pair (dividend, divisor)
Quotient(total, runs) == <<total, runs>>

\* a dict without keys
EmptyDict == [key \in {} |-> 0]

\* realtime.py:52-59, the dict summary() returns
summary(m) ==
    IF m.runs = 0 THEN EmptyDict
    ELSE ("runs" :> m.runs)
         @@ ("avg_retrieval_time" :> Quotient(m.total_retrieval_time, m.runs))
         @@ ("avg_total_time" :> Quotient(m.total_time, m.runs))

\* realtime.py:61-63, the dict dump() writes: the keys of summary() laid over the totals
dump(m) ==
    summary(m)
    @@ ("runs" :> m.runs)
    @@ ("total_retrieval_time" :> m.total_retrieval_time)
    @@ ("total_time" :> m.total_time)

\* variant of HistoryAppend: the answer is appended before the transcript
HistoryAppend_AnswerFirst(h, transcript, final_answer) ==
    Append(Append(h, final_answer), transcript)

\* variant of HistoryAppend: the answer is left for a later step
HistoryAppend_TranscriptOnly(h, transcript, final_answer) == Append(h, transcript)

\* realtime.py:142-143
HistoryAppend(h, transcript, final_answer) == Append(Append(h, transcript), final_answer)

\* realtime.py:132-146: resumed from the final speaker call
after_final_speak(r) ==
    /\ Runs(r, "finalSpk")
    /\ LET exc == Thrown(r, call[r]["finalSpk"])
       IN  IF exc # "none"
           THEN /\ Leave(r, "finalSpk", exc)
                /\ UNCHANGED <<history, metrics>>
           ELSE /\ \E total \in {l \in Latencies : l >= loc[r].retrieval_time} :
                      metrics' = MetricsAdd(metrics, loc[r].retrieval_time, total)
                /\ history' = HistoryAppend(history, partial[r], loc[r].final_answer)
                /\ Finish(r, "completed")
    /\ ready' = Tail(ready)
    /\ UNCHANGED coordinator

Next ==
    \/ \E t \in Transcripts : handle_partial(t)
    \/ \E r \in Tasks : run_pipeline_start(r)
    \/ \E r \in Tasks, c \in Calls : worker_return(r, c)
    \/ \E r \in Tasks : after_filler_gen(r)
    \/ \E r \in Tasks : retrieval_task_run(r)
    \/ \E r \in Tasks : retrieval_task_cancelled(r)
    \/ \E r \in Tasks : after_retrieval(r)
    \/ \E r \in Tasks : after_final_gen(r)
    \/ \E r \in Tasks : after_filler_play(r)
    \/ \E r \in Tasks : after_final_speak(r)

Spec == Init /\ [][Next]_vars

\* ------------------------------------------------ search and rerank, called

\* the corpora of the direct calls: documents that share two, one and no word
\* with the transcript "a b", two of them sharing one
SearchCorpora ==
    { <<>>,
      << <<"c">>, <<"a"," ","b">>, <<"B">>, <<"a">>, <<"i","t">> >> }

\* the values of k and top_k of the direct calls
Ks == {1, RerankTopK, SearchK}

\* A service of the search is in place and answers, is in place and raises, or
\* is not there (the package is not installed, the index was not loaded).
ServiceStates == {"ok", "raises", "absent"}

\* the similarities index.search reports, the scores bm25.get_scores gives
VectorScores == {0, 1, 2}
Bm25Scores == {0, 1, 2}

\* a scored list has non-increasing scores
NonIncreasing(scored) ==
    \A i \in 1..(Len(scored) - 1) : scored[i][1] >= scored[i + 1][1]

\* score > 0 (retriever.py:90)
Positive(pair) == pair[1] > 0

\* the index rag/faiss.index holds: the inner-product index of ingest.py:87 or
\* the L2 index of ingest.py:125
IndexMetrics == {"IP", "L2"}

\* retriever.py:61-72, the vector strategy.  index.search gives the k nearest
\* best first: the largest similarity first for an inner-product index, the
\* smallest distance first for an L2 index.  Line 69 makes the score of a hit
\* the negated value the index reports.
vector_strategy(k, metric) ==
    { LET sign == IF metric = "IP" THEN 1 ELSE 0 - 1
          nearest == Take(SortByScoreDesc([i \in 1..Len(docs) |-> <<sign * D[i], docs[i]>>]), k)
      IN  [j \in 1..Len(nearest) |-> <<0 - (sign * nearest[j][1]), nearest[j][2]>>] :
        D \in [1..Len(docs) -> VectorScores] }

\* retriever.py:75-82, the BM25 strategy
bm25_strategy(query, k) ==
    { Take(SortByScoreDesc([i \in 1..Len(docs) |-> <<sc[i], docs[i]>>]), k) :
        sc \in [1..Len(docs) -> Bm25Scores] }

\* retriever.py:85-93, the lexical strategy
lexical_strategy(query, documents, k) ==
    Take(SortByScoreDesc(SelectSeq([i \in 1..Len(documents) |->
                                       <<Overlap(query, documents[i]), documents[i]>>],
                                   Positive)), k)

\* retriever.py:54-95, the first definition of hybrid_search: the lists it can
\* return when the vector service and BM25 are as res says
hybrid_search_first(query, k, res) ==
    IF res.vector = "ok" THEN vector_strategy(k, res.metric)
    ELSE IF docs # <<>> /\ res.bm25 = "ok" THEN bm25_strategy(query, k)
    ELSE IF docs # <<>> THEN {lexical_strategy(query, docs, k)}
    ELSE {<<>>}

\* retriever.py:96-115, the definition the name hybrid_search ends up bound to.
\* Lines 96-99 import faiss, numpy, sentence_transformers and rank_bm25 with no
\* guard, so a missing package fails the import of the module; a service that
\* raises in lines 109-113 raises out of the function.
hybrid_search_imported(query, k, res) ==
    IF "absent" \in {res.vector, res.bm25} THEN {[err |-> "ImportError", hits |-> <<>>]}
    ELSE IF "raises" \in {res.vector, res.bm25} THEN {[err |-> "service", hits |-> <<>>]}
    ELSE {h \in hybrid_search(query, k) : h.err # "service"}

\* reranker.py:17-22: the call gets as far as constructing the CrossEncoder
constructs_model(candidates, model) == candidates # <<>> /\ model # "absent"

\* reranker.py:15-37 when the CrossEncoder is as model says
rerank_with(query, candidates, top_k, model) ==
    IF candidates = <<>> THEN {<<>>}
    ELSE IF model = "ok" THEN rerank_model(query, candidates, top_k)
    ELSE {rerank_fallback(query, candidates, top_k)}

SearchInit ==
    /\ docs \in SearchCorpora
    /\ probe = NoProbe
    /\ chunker = NoChunker
    /\ GROQ_CLIENT \in BOOLEAN
    /\ history = <<>>
    /\ metrics = [runs |-> 0, total_retrieval_time |-> 0, total_time |-> 0]
    /\ current_task = 0
    /\ ntasks = 0
    /\ pc = [r \in Tasks |-> "none"]
    /\ partial = [r \in Tasks |-> <<>>]
    /\ cancelling = [r \in Tasks |-> FALSE]
    /\ must_cancel = [r \in Tasks |-> FALSE]
    /\ result = [r \in Tasks |-> "none"]
    /\ call = [r \in Tasks |-> [c \in Calls |-> "none"]]
    /\ out = [r \in Tasks |-> [c \in Generators |-> <<>>]]
    /\ retr = [r \in Tasks |-> NoRetrieval]
    /\ loc = [r \in Tasks |-> NoLocals]
    /\ ready = <<>>

\* What a direct call leaves alone.  One call is followed from each start: the
\* functions keep nothing from one call to the next.
pipelines == <<docs, GROQ_CLIENT, history, metrics, current_task, ntasks, pc, partial,
               cancelling, must_cancel, result, call, out, retr, loc, ready, chunker>>

\* hybrid_search of lines 54-95 is called
call_hybrid_search_first(q, k, v, b, metric) ==
    /\ probe = NoProbe
    /\ \E hits \in hybrid_search_first(q, k, [vector |-> v, bm25 |-> b, metric |-> metric]) :
          probe' = [op |-> "hybrid_search_first", query |-> q, k |-> k,
                    res |-> [vector |-> v, bm25 |-> b, model |-> "none", metric |-> metric],
                    err |-> "none", hits |-> hits]
    /\ UNCHANGED pipelines

\* rag.retriever is imported and its hybrid_search is called
call_hybrid_search(q, k, v, b) ==
    /\ probe = NoProbe
    /\ \E h \in hybrid_search_imported(q, k, [vector |-> v, bm25 |-> b]) :
          probe' = [op |-> "hybrid_search", query |-> q, k |-> k,
                    res |-> [vector |-> v, bm25 |-> b, model |-> "none", metric |-> "none"],
                    err |-> h.err, hits |-> h.hits]
    /\ UNCHANGED pipelines

\* rerank is called with the corpus as its candidates
call_rerank(q, k, m) ==
    /\ probe = NoProbe
    /\ \E hits \in rerank_with(q, docs, k, m) :
          probe' = [op |-> "rerank", query |-> q, k |-> k,
                    res |-> [vector |-> "none", bm25 |-> "none", model |-> m, metric |-> "none"],
                    err |-> "none", hits |-> hits]
    /\ UNCHANGED pipelines

SearchNext ==
    \/ \E q \in Transcripts, k \in Ks, v \in ServiceStates, b \in ServiceStates,
          metric \in IndexMetrics :
          call_hybrid_search_first(q, k, v, b, metric)
    \/ \E q \in Transcripts, k \in Ks, v \in ServiceStates, b \in ServiceStates :
          call_hybrid_search(q, k, v, b)
    \/ \E q \in Transcripts, k \in Ks, m \in ServiceStates : call_rerank(q, k, m)

SearchSpec == SearchInit /\ [][SearchNext]_vars

\* ------------------------------------------------- text functions, called

\* The characters of the texts: a letter, a space, two sentence terminals.
Chars == {"a", " ", ".", "!"}

\* a sentence of one word more than the default bound of postprocess_for_voice
LongSentence ==
    [i \in 1..(2 * (MaxSentenceWords + 1)) |-> IF i % 2 = 1 THEN "a" ELSE " "]

\* Texts a generator can return and a caller can pass.
Texts ==
    UNION {[1..n -> Chars] : n \in 0..MaxTextLen}
        \cup LLMTexts
        \cup {LongSentence, <<"a","\n"," ","b","?"," ","a",".">>}

\* Values of max_sentence_words.
WordBounds == {0, 1, 2, MaxSentenceWords}

\* Queries to rewrite: a pronoun as a word, in capitals, inside a word, none.
Queries ==
    { <<"i","t">>, <<"a"," ","I","T">>, <<"b","i","t">>, <<"a"," ","b">>, <<>> }

\* Conversation histories, most recent entry last.
Histories == { <<>>, << <<"a"," ","b">>, <<"c",".">> >> }

TextInit ==
    /\ docs = <<>>
    /\ probe = NoProbe
    /\ chunker = NoChunker
    /\ GROQ_CLIENT = FALSE
    /\ history \in Histories
    /\ metrics = [runs |-> 0, total_retrieval_time |-> 0, total_time |-> 0]
    /\ current_task = 0
    /\ ntasks = 0
    /\ pc = [r \in Tasks |-> "none"]
    /\ partial = [r \in Tasks |-> <<>>]
    /\ cancelling = [r \in Tasks |-> FALSE]
    /\ must_cancel = [r \in Tasks |-> FALSE]
    /\ result = [r \in Tasks |-> "none"]
    /\ call = [r \in Tasks |-> [c \in Calls |-> "none"]]
    /\ out = [r \in Tasks |-> [c \in Generators |-> <<>>]]
    /\ retr = [r \in Tasks |-> NoRetrieval]
    /\ loc = [r \in Tasks |-> NoLocals]
    /\ ready = <<>>

\* the record of a direct call of a text or a metrics function
Called(op, query, k, hits) ==
    [op |-> op, query |-> query, k |-> k,
     res |-> [vector |-> "none", bm25 |-> "none", model |-> "none", metric |-> "none"],
     err |-> "none", hits |-> hits]

\* rewrite_query(q, history) is called
call_rewrite_query(q) ==
    /\ probe = NoProbe
    /\ probe' = Called("rewrite_query", q, 0, rewrite_query(q, history))
    /\ UNCHANGED pipelines

\* postprocess_for_voice(text, max_sentence_words) is called
call_postprocess_for_voice ==
    /\ probe = NoProbe
    /\ \E text \in Texts, max_sentence_words \in WordBounds :
          probe' = Called("postprocess_for_voice", text, max_sentence_words,
                          postprocess_for_voice(text, max_sentence_words))
    /\ UNCHANGED pipelines

\* line 102 of _run_pipeline is applied to a generator's output
call_filler_text ==
    /\ probe = NoProbe
    /\ \E text \in Texts : probe' = Called("filler_text", text, 0, FillerText(text))
    /\ UNCHANGED pipelines

TextNext ==
    \/ \E q \in Queries : call_rewrite_query(q)
    \/ call_postprocess_for_voice
    \/ call_filler_text

TextSpec == TextInit /\ [][TextNext]_vars

\* ------------------------------------------------ MetricsCollector, called

\* Latencies handed to add.
Seconds == {0, 1, 2}

\* The collector after up to MaxRuns calls of add with latencies in Seconds.
MetricStates ==
    { m \in [runs : 0..MaxRuns, total_retrieval_time : 0..(2 * MaxRuns),
             total_time : 0..(2 * MaxRuns)] :
          m.total_retrieval_time <= 2 * m.runs /\ m.total_time <= 2 * m.runs }

MetricsInit ==
    /\ docs = <<>>
    /\ probe = NoProbe
    /\ chunker = NoChunker
    /\ GROQ_CLIENT = FALSE
    /\ history = <<>>
    /\ metrics \in MetricStates
    /\ current_task = 0
    /\ ntasks = 0
    /\ pc = [r \in Tasks |-> "none"]
    /\ partial = [r \in Tasks |-> <<>>]
    /\ cancelling = [r \in Tasks |-> FALSE]
    /\ must_cancel = [r \in Tasks |-> FALSE]
    /\ result = [r \in Tasks |-> "none"]
    /\ call = [r \in Tasks |-> [c \in Calls |-> "none"]]
    /\ out = [r \in Tasks |-> [c \in Generators |-> <<>>]]
    /\ retr = [r \in Tasks |-> NoRetrieval]
    /\ loc = [r \in Tasks |-> NoLocals]
    /\ ready = <<>>

\* metrics.add(retrieval_time, total_time) is called; the collector after it is recorded
call_metrics_add(retrieval_time, total_time) ==
    /\ probe = NoProbe
    /\ probe' = Called("add", <<retrieval_time, total_time>>, 0,
                       MetricsAdd(metrics, retrieval_time, total_time))
    /\ UNCHANGED pipelines

\* metrics.summary() is called
call_metrics_summary ==
    /\ probe = NoProbe
    /\ probe' = Called("summary", <<>>, 0, summary(metrics))
    /\ UNCHANGED pipelines

\* metrics.dump(path) is called; the dict it writes is recorded
call_metrics_dump ==
    /\ probe = NoProbe
    /\ probe' = Called("dump", <<>>, 0, dump(metrics))
    /\ UNCHANGED pipelines

MetricsNext ==
    \/ \E retrieval_time \in Seconds, total_time \in Seconds :
          call_metrics_add(retrieval_time, total_time)
    \/ call_metrics_summary
    \/ call_metrics_dump

MetricsSpec == MetricsInit /\ [][MetricsNext]_vars

\* ------------------------------------------------------------ runner.main

\* runner.py:62, what input("Query: ") can return
TypedQueries == Transcripts \cup Queries

\* runner.py:64-67: the query is read, the coordinator is made, and
\* asyncio.run(coord.handle_partial(q)) runs handle_partial on a new event loop
main_handle_partial(q) ==
    /\ ntasks = 0
    /\ handle_partial(q)

\* runner.py:67: handle_partial has returned, so its done-callback stops the
\* loop; the first step of the pipeline task was scheduled before that callback
\* and runs in the loop's last iteration
main_last_iteration ==
    /\ ~cancelling[1]
    /\ run_pipeline_start(1)

\* runner.py:67: asyncio.run closes its loop.  It cancels every task that is
\* not done, here the pipeline suspended at line 100; the future of the
\* generator call cannot be done, since the loop has not run since the call
\* was made.
main_cancel_all_tasks ==
    /\ pc[1] = "fillerGen"
    /\ ~cancelling[1]
    /\ cancelling' = [cancelling EXCEPT ![1] = TRUE]
    /\ must_cancel' = [must_cancel EXCEPT ![1] = TRUE]
    /\ ready' = IF P(1) \in Range(ready) THEN ready ELSE Append(ready, P(1))
    /\ UNCHANGED <<docs, GROQ_CLIENT, history, metrics, current_task, ntasks, pc, partial,
                   result, call, out, retr, loc, probe, chunker>>

\* runner.py:67: asyncio.run runs the loop until the cancelled tasks are done
main_gather_cancelled ==
    /\ cancelling[1]
    /\ after_filler_gen(1)

\* runner.py:69-73: asyncio.run(asyncio.sleep(0.1)) runs a new loop with no
\* task of the coordinator in it, then coord.dump_metrics() writes the metrics
main_dump_metrics ==
    /\ ntasks = 1
    /\ Done(1)
    /\ probe = NoProbe
    /\ probe' = Called("dump_metrics", <<>>, 0, dump(metrics))
    /\ UNCHANGED pipelines

RunnerNext ==
    \/ \E q \in TypedQueries : main_handle_partial(q)
    \/ main_last_iteration
    \/ \E c \in Calls : worker_return(1, c)
    \/ main_cancel_all_tasks
    \/ main_gather_cancelled
    \/ main_dump_metrics

RunnerSpec == Init /\ [][RunnerNext]_vars

\* ------------------------------------------------------ ingest.chunk_text

\* The words of the texts to chunk, all different.
ChunkWords == <<"a", "b", "c", "i", "t", "A", "B", "I", "T">>

\* The texts handed to chunk_text: up to MaxWords one-letter words, one space
\* apart, and one text with other whitespace.
ChunkTexts ==
    { Join(<<Space>>, [j \in 1..n |-> <<ChunkWords[j]>>]) : n \in 0..MaxWords }
        \cup { <<" ","a","\n"," ","b">> }

Max(a, b) == IF a > b THEN a ELSE b

\* seq[a:b] of Python: a negative index counts from the end, and both are
\* clamped to the sequence
PySlice(seq, a, b) ==
    LET n == Len(seq)
        lo == IF a < 0 THEN Max(a + n, 0) ELSE Min(a, n)
        hi == IF b < 0 THEN Max(b + n, 0) ELSE Min(b, n)
    IN  SubSeq(seq, lo + 1, hi)

\* A call that returns appends at most one chunk per word.  Of a call that goes
\* on, the first MaxWords + 1 chunks are kept, and of the number of chunks
\* appended after them whether it is even or odd.
Appended(chunks, chunk) ==
    IF Len(chunks) <= MaxWords THEN Append(chunks, chunk) ELSE chunks

Dropped(chunks, dropped) ==
    IF Len(chunks) <= MaxWords THEN dropped ELSE 1 - dropped

\* Below -(n + max_words) every slice words[i:i+max_words] is empty and
\* i + max_words >= n is false, whatever i is: i is kept at that value.
Advanced(i, n, max_words, stride) == Max(i + max_words - stride, 0 - (n + max_words))

\* ingest.py:36-40: chunk_text is called; words, chunks, i and n are set
ChunkInit ==
    /\ docs = <<>>
    /\ probe = NoProbe
    /\ \E text \in ChunkTexts, max_words \in 1..MaxSize, stride \in 1..MaxSize :
          chunker = [text |-> text, max_words |-> max_words, stride |-> stride,
                     i |-> 0, chunks |-> <<>>, dropped |-> 0, pc |-> "while"]
    /\ GROQ_CLIENT = FALSE
    /\ history = <<>>
    /\ metrics = [runs |-> 0, total_retrieval_time |-> 0, total_time |-> 0]
    /\ current_task = 0
    /\ ntasks = 0
    /\ pc = [r \in Tasks |-> "none"]
    /\ partial = [r \in Tasks |-> <<>>]
    /\ cancelling = [r \in Tasks |-> FALSE]
    /\ must_cancel = [r \in Tasks |-> FALSE]
    /\ result = [r \in Tasks |-> "none"]
    /\ call = [r \in Tasks |-> [c \in Calls |-> "none"]]
    /\ out = [r \in Tasks |-> [c \in Generators |-> <<>>]]
    /\ retr = [r \in Tasks |-> NoRetrieval]
    /\ loc = [r \in Tasks |-> NoLocals]
    /\ ready = <<>>

\* what chunk_text leaves alone
ingested == <<docs, GROQ_CLIENT, history, metrics, current_task, ntasks, pc, partial,
              cancelling, must_cancel, result, call, out, retr, loc, ready, probe>>

\* ingest.py:41-46: one pass of the loop body, ended by the break of line 45
\* or by line 46
chunk_step(words, n) ==
    /\ chunker.i < n
    /\ LET chunk == PySlice(words, chunker.i, chunker.i + chunker.max_words)
       IN  chunker' =
               IF chunker.i + chunker.max_words >= n
               THEN [chunker EXCEPT !.chunks = Appended(@, Join(<<Space>>, chunk)),
                                    !.dropped = Dropped(chunker.chunks, @),
                                    !.pc = "returned"]
               ELSE [chunker EXCEPT !.chunks = Appended(@, Join(<<Space>>, chunk)),
                                    !.dropped = Dropped(chunker.chunks, @),
                                    !.i = Advanced(chunker.i, n, chunker.max_words,
                                                   chunker.stride)]

\* ingest.py:41-46
chunk_loop ==
    /\ chunker.pc = "while"
    /\ chunk_step(Words(chunker.text), Len(Words(chunker.text)))
    /\ UNCHANGED ingested

\* ingest.py:41, 47: the test of the while fails and chunks is returned
chunk_return ==
    /\ chunker.pc = "while"
    /\ ~(chunker.i < Len(Words(chunker.text)))
    /\ chunker' = [chunker EXCEPT !.pc = "returned"]
    /\ UNCHANGED ingested

ChunkNext == chunk_loop \/ chunk_return

\* chunk_text is straight-line code in one thread: while a step of it is
\* possible, it is taken
ChunkSpec == ChunkInit /\ [][ChunkNext]_vars /\ WF_vars(ChunkNext)

\* ----------------------------------------------------------------- claims

\* task r takes a step of _run_pipeline
Steps(r) == pc'[r] # pc[r] /\ pc[r] # "none"

\* task r completes: it runs lines 134-146
Completes(r) == result[r] # "completed" /\ result'[r] = "completed"

\* task r ends with an exception other than a cancellation
Raises(r) == result[r] # "raised" /\ result'[r] = "raised"

\* the pipelines that have started, have not ended and were not asked to cancel
Current == {r \in Tasks : pc[r] \notin {"none", "done"} /\ ~cancelling[r]}

\* C1: a pipeline whose cancellation handle_partial has requested never appends
\* to history and never records metrics in any step it takes afterwards, also
\* when its executor calls return successfully later on.
C1_CancelledRunLeavesNoTrace ==
    [][\A r \in Tasks :
          (cancelling[r] /\ Steps(r)) =>
              /\ history' = history
              /\ metrics' = metrics
              /\ result'[r] # "completed"]_vars

\* C1 witness: a superseded pipeline ended cancelled and its final speaker call,
\* still on its thread at that time, has returned successfully since.
C1_Witness ==
    \E r \in Tasks :
        /\ cancelling[r]
        /\ result[r] = "cancelled"
        /\ call[r]["finalSpk"] = "ok"

\* C2: at most one pipeline is current, and it is the one _current_task names;
\* every handle_partial call asks the previous one to cancel if it has not ended
\* and installs exactly one new pipeline.
C2_OneCurrentRun ==
    /\ [](Cardinality(Current) <= 1 /\ Current \subseteq {current_task})
    /\ [][current_task' # current_task =>
             /\ ntasks' = ntasks + 1
             /\ current_task' = ntasks'
             /\ pc[current_task'] = "none" /\ pc'[current_task'] = "created"
             /\ \A r \in Tasks \ {current_task'} : pc'[r] = pc[r]
             /\ (current_task # 0 /\ ~Done(current_task)) => cancelling'[current_task]
             /\ Current' = {current_task'}]_vars

\* C2 witness: the second handle_partial call found the first pipeline running
\* and replaced it.
C2_Witness ==
    /\ ntasks = 2
    /\ current_task = 2
    /\ pc[1] \notin {"none", "done"}
    /\ cancelling[1]
    /\ Current = {2}

\* C3: history only grows, by the transcript and then the final answer of a
\* pipeline that completes in that step and records its metrics in it; every
\* completing pipeline appends this pair, so history holds two entries for each
\* completed pipeline.
C3_HistoryIsCompletedTurns ==
    /\ [](Len(history) = 2 * Cardinality({r \in Tasks : result[r] = "completed"}))
    /\ [][/\ history' # history =>
                \E r \in Tasks :
                    /\ Completes(r)
                    /\ history' = history \o <<partial[r], loc[r].final_answer>>
          /\ \A r \in Tasks :
                Completes(r) =>
                    /\ history' = history \o <<partial[r], loc[r].final_answer>>
                    /\ metrics'.runs = metrics.runs + 1]_vars

\* C3 witness: two pipelines have completed, with different transcripts.
C3_Witness ==
    /\ Len(history) = 4
    /\ history[1] = <<"i","t">>
    /\ history[3] = <<"a"," ","b">>
    /\ history[2] # history[1]
    /\ metrics.runs = 2

\* C4: the two speaker calls of a pipeline never run at once, and a pipeline
\* waiting for its final speaker call has a filler speaker call that returned.
C4_FinalSpeakAfterFiller ==
    \A r \in Tasks :
        /\ ~(call[r]["fillerSpk"] = "running" /\ call[r]["finalSpk"] = "running")
        /\ pc[r] = "finalSpk" => Returned(call[r]["fillerSpk"])

\* C4 witness: the final speaker call was made after the filler speaker call
\* had returned with an error.
C4_Witness ==
    \E r \in Tasks :
        /\ pc[r] = "finalSpk"
        /\ call[r]["finalSpk"] = "running"
        /\ call[r]["fillerSpk"] = "failed"

\* C5: once cancellation of a pipeline is requested, none of its executor calls
\* is started any more and its retrieval (rewrite, search, rerank) does not run.
C5_NoCallAfterCancel ==
    [][\A r \in Tasks :
          cancelling[r] =>
              /\ \A c \in Calls : call'[r][c] = "running" => call[r][c] = "running"
              /\ retr'[r].st \in {"ok", "failed"} => retr'[r] = retr[r]]_vars

\* C5 witness: a pipeline cancelled at the join, before retrieval_task had run:
\* the retrieval never ran and the second generator call was not made.
C5_Witness ==
    \E r \in Tasks :
        /\ cancelling[r]
        /\ retr[r].st = "cancelled"
        /\ call[r]["finalGen"] = "none"
        /\ call[r]["finalSpk"] = "none"

\* C6: the retrieval branch is launched together with the filler branch: while
\* the filler generator call of a pipeline is outstanding, its retrieval_task
\* exists already.
C6_RetrievalLaunchedWithFiller ==
    \A r \in Tasks :
        (pc[r] = "fillerGen" /\ call[r]["fillerGen"] = "running") => retr[r].st # "none"

\* C7: a failure of the filler generator call or of the filler speaker call
\* does not end a pipeline that was not cancelled.
C7_FillerFailureSwallowed ==
    [][\A r \in Tasks :
          (/\ ~must_cancel[r]
           /\ \/ pc[r] = "fillerGen" /\ call[r]["fillerGen"] = "failed"
              \/ pc[r] = "filler_play" /\ call[r]["fillerSpk"] = "failed"
              \/ pc[r] = "finalGen" /\ call[r]["finalGen"] = "ok"
                                    /\ call[r]["fillerSpk"] = "failed")
          => ~Raises(r)]_vars

\* C8: a pipeline that was not cancelled and whose retrieval failed goes on to
\* the second generator call with an empty context list.
C8_RetrievalFailureGivesEmptyContext ==
    [][\A r \in Tasks :
          (pc[r] = "retrieval_task" /\ retr[r].st = "failed" /\ ~must_cancel[r] /\ Steps(r))
          => /\ pc'[r] = "finalGen"
             /\ call'[r]["finalGen"] = "running"
             /\ loc'[r].contexts = <<>>]_vars

\* C9: only cancellation ends a pipeline early: one that got past the join and
\* was not cancelled does not end on a failing second generator call or a
\* failing final speaker call.
C9_OnlyCancellationEndsEarly ==
    [][\A r \in Tasks :
          (pc[r] \in {"finalGen", "finalSpk"} /\ ~must_cancel[r]) => ~Raises(r)]_vars

\* C10: with an empty corpus, a pipeline that is not superseded and none of
\* whose external calls (generator, speaker, search services) fails makes its
\* second generator call with an empty context list and does not end before
\* it completes.
C10_EmptyCorpusRunCompletes ==
    [][\A r \in Tasks :
          (/\ docs = <<>>
           /\ ~must_cancel[r]
           /\ Steps(r)
           /\ \A c \in Calls : call[r][c] # "failed"
           /\ retr[r].err # "service")
          => /\ ~Raises(r)
             /\ pc[r] = "retrieval_task" =>
                   (call'[r]["finalGen"] = "running" /\ loc'[r].contexts = <<>>)]_vars

C12_DispatchedCallRunsToCompletion ==
    [][\A r \in Tasks, c \in Calls :
          call[r][c] = "running" =>
             /\ call'[r][c] \in {"running", "ok", "failed"}
             /\ (cancelling'[r] /\ ~cancelling[r]) => call'[r][c] = "running"
             /\ Steps(r) => call'[r][c] = "running"]_vars

\* a pipeline ended cancelled while its filler speaker call was running, and the
\* call has returned since
C12_Witness ==
    \E r \in Tasks :
        /\ result[r] = "cancelled"
        /\ cancelling[r]
        /\ call[r]["fillerSpk"] = "ok"

\* C13: whatever generator or speaker calls are in flight, the next transcript
\* can be taken at once, and taking it cancels the pipeline in place and
\* installs the new one; and no step of the event loop runs a call to its end:
\* a call is started in one step and returns in a later step of its worker.
C13_PartialAcceptedWhileCallInFlight ==
    /\ [](ntasks < MaxRuns =>
            ENABLED (\E t \in Transcripts :
                        /\ handle_partial(t)
                        /\ current_task' = ntasks + 1
                        /\ pc'[ntasks + 1] = "created"
                        /\ MustCancel(current_task) => cancelling'[current_task]))
    /\ [][\A r \in Tasks, c \in Calls :
             call[r][c] # "running" /\ call'[r][c] # call[r][c]
             => call'[r][c] \in {"running", "none"}]_vars

\* the second transcript was taken while the second generator call of the first
\* pipeline was running, and that call is running still
C13_Witness ==
    /\ ntasks = 2
    /\ current_task = 2
    /\ pc[2] = "created"
    /\ pc[1] = "finalGen"
    /\ cancelling[1]
    /\ call[1]["finalGen"] = "running"

\* C14: a pipeline that ended with an exception changes nothing of what
\* handle_partial works with (the current task, the cancellations, the number of
\* tasks), and after it the next transcript is taken as after any other: the
\* call installs a new pipeline as the current one.
C14_FailureNeverSurfaces ==
    /\ []((ntasks < MaxRuns /\ \E r \in Tasks : result[r] = "raised") =>
            ENABLED (\E t \in Transcripts :
                        /\ handle_partial(t)
                        /\ ntasks' = ntasks + 1
                        /\ current_task' = ntasks'
                        /\ partial'[current_task'] = t
                        /\ result' = result))
    /\ [][(\E r \in Tasks : Raises(r)) =>
             /\ current_task' = current_task
             /\ ntasks' = ntasks
             /\ cancelling' = cancelling
             /\ \A q \in Tasks : pc[q] = "none" => pc'[q] = "none"]_vars

\* the first pipeline ended with an exception, and the transcript that came
\* after it started the second pipeline, whose first call is running
C14_Witness ==
    /\ result[1] = "raised"
    /\ ~cancelling[1]
    /\ current_task = 2
    /\ pc[2] = "fillerGen"
    /\ call[2]["fillerGen"] = "running"

\* C15: history and metrics change only in a step of a pipeline that is past the
\* join and resumes from its final speaker call; handle_partial, the steps of
\* the filler branch and the run of the retrieval, which reads history for the
\* rewriter, leave both as they are.
C15_OnlyPostJoinWrites ==
    [][/\ (history' # history \/ metrics' # metrics)
          => \E r \in Tasks : pc[r] = "finalSpk" /\ Steps(r) /\ ~must_cancel[r]
       /\ \A r \in Tasks :
             (\/ Steps(r) /\ pc[r] \in {"created", "fillerGen", "retrieval_task"}
              \/ retr[r].st = "pending" /\ retr'[r].st # "pending"
              \/ ntasks' # ntasks)
             => (history' = history /\ metrics' = metrics)]_vars

\* the retrieval of a second turn has run, its query rewritten with the history
\* of the first turn, and history and metrics are those of the first turn
C15_Witness ==
    \E r \in Tasks :
        /\ pc[r] = "retrieval_task"
        /\ retr[r].st = "ok"
        /\ partial[r] = <<"i", "t">>
        /\ rewrite_query(partial[r], history) # partial[r]
        /\ Len(history) = 2
        /\ metrics.runs = 1

\* C16: every candidate hybrid_search gives the pipeline is a (score, text) pair
\* whose text is a passage of the corpus, and there are at most k of them: the
\* texts _retrieve_and_rerank takes from the candidates (c[1]) and hands on as
\* contexts are passages of the corpus.
C16_SearchGivesScoredPassages ==
    \A r \in Tasks :
        retr[r].st = "ok" =>
            /\ Len(retr[r].ctx) <= SearchK
            /\ \A i \in 1..Len(retr[r].ctx) : retr[r].ctx[i] \in Range(docs)

\* C17: every list hybrid_search returns, from whichever of its strategies (the
\* vector strategy being over an inner-product index that answers best first), and
\* every list rerank returns, from the model or the fallback, has non-increasing
\* scores.
C17_ScoresNonIncreasing ==
    (\/ probe.op = "rerank"
     \/ probe.op = "hybrid_search_first" /\ probe.res.metric = "IP")
    => NonIncreasing(probe.hits)

\* C18: a call of hybrid_search never raises; it returns a list of the vector
\* strategy if the vector service answers, else one of the BM25 strategy if BM25
\* answers and the corpus is not empty, else the list of the lexical strategy,
\* which is empty for an empty corpus.
C18_FirstWorkingStrategy ==
    probe.op = "hybrid_search" =>
        /\ probe.err = "none"
        /\ (probe.res.vector # "ok" /\ probe.res.bm25 = "ok" /\ docs # <<>>)
           => probe.hits \in bm25_strategy(probe.query, probe.k)
        /\ (probe.res.vector # "ok" /\ (probe.res.bm25 # "ok" \/ docs = <<>>))
           => probe.hits = lexical_strategy(probe.query, docs, probe.k)

\* hits is the ranking of the documents by lexical overlap with the query: the
\* first k of the documents that share a word with it, each with the number of
\* words shared as its score, higher scores first, equal scores in the order of
\* the documents
LexicalRanking(query, documents, hits, k) ==
    LET sharing == {i \in 1..Len(documents) : Overlap(query, documents[i]) > 0}
        Before(i, j) == \/ Overlap(query, documents[i]) > Overlap(query, documents[j])
                        \/ /\ Overlap(query, documents[i]) = Overlap(query, documents[j])
                           /\ i < j
    IN  /\ Len(hits) = Min(k, Cardinality(sharing))
        /\ \E f \in [1..Len(hits) -> sharing] :
              /\ \A j \in 1..Len(hits) :
                    hits[j] = <<Overlap(query, documents[f[j]]), documents[f[j]]>>
              /\ \A j \in 1..(Len(hits) - 1) : Before(f[j], f[j + 1])
              /\ \A i \in sharing : (\A j \in 1..Len(hits) : f[j] # i) =>
                                       \A j \in 1..Len(hits) : Before(f[j], i)

\* C19: when neither the vector service nor BM25 answers, hybrid_search returns
\* the ranking of the corpus by lexical overlap with the query.
C19_LexicalStrategy ==
    (/\ probe.op = "hybrid_search"
     /\ probe.res.vector # "ok"
     /\ probe.res.bm25 # "ok")
    => (probe.err = "none" /\ LexicalRanking(probe.query, docs, probe.hits, probe.k))

\* C20: when the CrossEncoder is not there or raises, rerank returns the
\* ranking of the candidates by lexical overlap with the query, candidates that
\* share no word with it left out.
C20_RerankFallbackIsLexical ==
    (probe.op = "rerank" /\ probe.res.model # "ok")
    => LexicalRanking(probe.query, docs, probe.hits, probe.k)

\* C21: rerank returns at most top_k pairs (score, text), the text of each being
\* one of the candidates, and for no candidates it returns the empty list
\* without getting to the scoring model.
C21_RerankContract ==
    probe.op = "rerank" =>
        /\ Len(probe.hits) <= probe.k
        /\ \A i \in 1..Len(probe.hits) :
              /\ Len(probe.hits[i]) = 2
              /\ probe.hits[i][1] \in Nat
              /\ probe.hits[i][2] \in Range(docs)
        /\ docs = <<>> => (probe.hits = <<>> /\ ~constructs_model(docs, probe.res.model))

\* the fallback was given more candidates than top_k and returned top_k of them
C21_Witness ==
    /\ probe.op = "rerank"
    /\ probe.res.model = "raises"
    /\ Len(docs) > probe.k
    /\ Len(probe.hits) = probe.k
    /\ probe.hits[1][2] \in Range(docs)

\* C22: rewrite_query returns the query unchanged when the history is empty or
\* the query contains none of the pronoun words, and otherwise the query
\* followed by " (context: <most recent history entry>)".
C22_RewriteOnPronounWords ==
    probe.op = "rewrite_query" =>
        probe.hits =
            IF history # <<>> /\ Range(Words(Lower(probe.query))) \cap Pronouns # {}
            THEN probe.query \o <<" ","(","c","o","n","t","e","x","t",":"," ">>
                     \o history[Len(history)] \o <<")">>
            ELSE probe.query

\* C23: add increments runs by exactly one and adds the two latencies to the
\* totals; summary() is empty at zero runs and otherwise holds the averages
\* total / runs, never dividing by zero.
C23_AddAndSummary ==
    /\ probe.op = "add" =>
          /\ probe.hits.runs = metrics.runs + 1
          /\ probe.hits.total_retrieval_time = metrics.total_retrieval_time + probe.query[1]
          /\ probe.hits.total_time = metrics.total_time + probe.query[2]
    /\ probe.op = "summary" =>
          IF metrics.runs = 0 THEN DOMAIN probe.hits = {}
          ELSE /\ probe.hits["avg_retrieval_time"] = <<metrics.total_retrieval_time, metrics.runs>>
               /\ probe.hits["avg_total_time"] = <<metrics.total_time, metrics.runs>>
               /\ probe.hits["avg_total_time"][2] # 0

C23_Witness ==
    /\ probe.op = "summary"
    /\ metrics.runs = 2
    /\ probe.hits["avg_total_time"] = <<1, 2>>

\* C24: the dict dump writes has all five fields, at zero runs too.
C24_DumpHasFiveFields ==
    probe.op = "dump" =>
        DOMAIN probe.hits = {"runs", "total_retrieval_time", "total_time",
                             "avg_retrieval_time", "avg_total_time"}

\* C25: postprocess_for_voice is idempotent for a fixed bound: applied to its
\* own output with the same bound it returns that output.
C25_PostprocessIdempotent ==
    probe.op = "postprocess_for_voice" =>
        postprocess_for_voice(probe.hits, probe.k) = probe.hits

C25_Witness ==
    /\ probe.op = "postprocess_for_voice"
    /\ probe.k = 2
    /\ probe.query = <<"a"," ","a"," ","a">>
    /\ probe.hits = <<"a"," ","a",".",".",".">>

\* the sentences of a text as postprocess_for_voice splits them
SentencesOf(text) == Sentences(Strip(CollapseWs(text)))

\* the output has one sentence per sentence of the text: one within the bound
\* unchanged, a longer one cut to its first bound words with "..." after them,
\* and no sentence of the output has more words than the bound
BoundedSentences(text, bound, output) ==
    /\ Len(SentencesOf(output)) = Len(SentencesOf(text))
    /\ \A i \in 1..Len(SentencesOf(text)) :
          LET p == SentencesOf(text)[i]
              q == SentencesOf(output)[i]
          IN  /\ Len(Words(q)) <= bound
              /\ q = IF Len(Words(p)) <= bound THEN p
                     ELSE Join(<<Space>>, SubSeq(Words(p), 1, bound)) \o <<".", ".", ".">>

\* C26 as stated: for every text and every bound, the output's sentences are
\* bounded as above.
C26_EveryBound ==
    probe.op = "postprocess_for_voice" => BoundedSentences(probe.query, probe.k, probe.hits)

\* C26: for every text and every bound of at least one word, the output's
\* sentences are bounded as above.
C26_BoundAtLeastOne ==
    (probe.op = "postprocess_for_voice" /\ probe.k >= 1) =>
        BoundedSentences(probe.query, probe.k, probe.hits)

C26_Witness ==
    /\ probe.op = "postprocess_for_voice"
    /\ probe.k = 1
    /\ probe.query = <<"a"," ","a","!">>
    /\ probe.hits = <<"a",".",".",".">>

\* C27: while the second generator call of a Run is in flight, the contexts it
\* was given are at most RerankTopK texts, each a passage of the corpus (one of
\* the candidate texts the search returned).
C27_ContextsArePassages ==
    \A r \in Tasks :
        call[r]["finalGen"] = "running" =>
            /\ Len(loc[r].contexts) <= RerankTopK
            /\ Range(loc[r].contexts) \subseteq Range(docs)

\* C28: the filler text is the generator's output cut at its first . ! or ?
\* (the mark kept, replaced by a period, or followed by one): nothing of the
\* output after that mark is in the filler text.
C28_FillerCutAtFirstTerminal ==
    probe.op = "filler_text" =>
        LET i == FirstIn(probe.query, SentenceEnd)
        IN  i # 0 =>
                probe.hits \in { SubSeq(probe.query, 1, i),
                                 SubSeq(probe.query, 1, i - 1) \o <<".">>,
                                 SubSeq(probe.query, 1, i) \o <<".">> }

\* C29: in runner.main, when no external call fails, the Run that
\* handle_partial created has completed and metrics.runs is 1 when dump_metrics
\* is called.
C29_RunCompletesBeforeDump ==
    (probe.op = "dump_metrics" /\ result[1] # "raised") =>
        (result[1] = "completed" /\ metrics.runs = 1)

\* C30: in every state between two steps of the event loop, history holds two
\* entries for every run the metrics count: no step of handle_partial or of
\* another Run sees the metrics recorded without both appends, or the reverse.
C30_HistoryTwicePerRecordedRun == Len(history) = 2 * metrics.runs

C30_Witness ==
    /\ metrics.runs = 1
    /\ Len(history) = 2
    /\ \E r \in Tasks : pc[r] \notin {"none", "done"} /\ ready # <<>>

\* the chunks returned hold every word of the text, and none has more than
\* max_words words
ChunksCoverText ==
    /\ \A w \in Range(Words(chunker.text)) :
          \E j \in 1..Len(chunker.chunks) : w \in Range(Words(chunker.chunks[j]))
    /\ \A j \in 1..Len(chunker.chunks) : Len(Words(chunker.chunks[j])) <= chunker.max_words

\* C31: for every text and every positive max_words and stride, chunk_text
\* returns, and the chunks it returns hold every word of the text, none of
\* them longer than max_words words.
C31_ChunkTextReturnsCover ==
    /\ <>(chunker.pc = "returned")
    /\ [](chunker.pc = "returned" => ChunksCoverText)

\* the part of C31 about the chunks of a call that returns
C31_ReturnedChunksCover == chunker.pc = "returned" => ChunksCoverText

\* the part of C31 about returning, for a stride below max_words
C31_ReturnsWhenStrideBelow ==
    chunker.stride < chunker.max_words ~> chunker.pc = "returned"

====
